---- MODULE Spec2Model ----
(***************************************************************************)
(* organize-files-by-month.py: one pass over os.listdir('.') that moves    *)
(* every regular file of the working directory into a directory named by   *)
(* the YYYY.MM of its modification time.                                   *)
(*                                                                         *)
(* The file system is a function from paths to nodes.  A path is the       *)
(* sequence of its components relative to the working directory (<<>> is   *)
(* the working directory itself), so os.path.join is Append.  Timestamps   *)
(* are whole seconds and local time is taken to be UTC.                    *)
(***************************************************************************)
EXTENDS Integers, Sequences, FiniteSets, TLC

\* ------------------------------------------------------------- bounds
MaxNames == 2      \* plain file names that may occur at the top level
MaxTimes == 3      \* distinct modification times (two weeks apart)
MaxTop == 3        \* entries present at the top level before the first run
MaxPre == 1        \* entries present below the month directories before it
MaxRuns == 2       \* invocations of the script in a row
MaxRemovals == 1   \* removals by the concurrent actor

NameSeq == <<"report.txt", "notes.txt", "photo.jpg", "todo.md", "x.bin">>

PlainNames ==
    {NameSeq[i] : i \in 1..(IF MaxNames < Len(NameSeq) THEN MaxNames ELSE Len(NameSeq))}

\* 2023-06-15 12:00:00 UTC and every second week after it.
Times == {1686830400 + i * 1209600 : i \in 0..(MaxTimes - 1)}

\* ------------------------------------------------- timestamp -> label
\* datetime.fromtimestamp(mod_time): the civil year and month of a POSIX time.
YearOrMonth(mod_time, wantYear) ==
    LET z   == (mod_time \div 86400) + 719468
        era == z \div 146097
        doe == z - era * 146097
        yoe == (doe - (doe \div 1460) + (doe \div 36524) - (doe \div 146096)) \div 365
        doy == doe - (365 * yoe + (yoe \div 4) - (yoe \div 100))
        mp  == (5 * doy + 2) \div 153
        m   == IF mp < 10 THEN mp + 3 ELSE mp - 9
        y   == yoe + era * 400 + (IF m <= 2 THEN 1 ELSE 0)
    IN  IF wantYear THEN y ELSE m

\* .strftime('%Y.%m'): four-digit year, a dot, the month zero-padded to two digits.
strftime_Ym(mod_time) ==
    LET y == YearOrMonth(mod_time, TRUE)
        m == YearOrMonth(mod_time, FALSE)
    IN  ToString(y) \o "." \o (IF m < 10 THEN "0" \o ToString(m) ELSE ToString(m))

Labels == {strftime_Ym(t) : t \in Times}

\* A regular file may carry any name, a month label included.
TopNames == PlainNames \cup Labels

\* ------------------------------------------------------- file system
join(p, name) == Append(p, name)
dirname(p) == SubSeq(p, 1, Len(p) - 1)
basename(p) == p[Len(p)]

Paths ==
    {<<n>> : n \in TopNames}
    \cup {<<d, n>> : d \in Labels, n \in TopNames}
    \cup {<<d, n, n>> : d \in Labels, n \in TopNames}

None == [kind |-> "none", mtime |-> 0, id |-> <<>>]
Dir == [kind |-> "dir", mtime |-> 1686830400, id |-> <<>>]
\* A symbolic link whose target is missing: os.path.exists and isfile are False.
Dangling == [kind |-> "dangling", mtime |-> 0, id |-> <<>>]
\* id is the path the file had before the first run: what tells files apart.
File(t, p) == [kind |-> "file", mtime |-> t, id |-> p]

Kind(f, p) == IF p = <<>> THEN "dir" ELSE IF p \in DOMAIN f THEN f[p].kind ELSE "none"

\* Faulty variant: os.path.exists in place of os.path.isfile.
isfile_exists(f, p) == Kind(f, p) \in {"file", "dir"}

isfile(f, p) == Kind(f, p) = "file"
isdir(f, p) == Kind(f, p) = "dir"
exists(f, p) == Kind(f, p) \in {"file", "dir"}
listdir(f) == {n \in TopNames : Kind(f, <<n>>) # "none"}
getmtime(f, p) == f[p].mtime

\* Only the working directory may be read-only; directories below it are writable.
CanWrite(w, p) == p # <<>> \/ w

\* os.makedirs(label): the label has one component, so this is one mkdir.
makedirs(f, w, p) ==
    IF Kind(f, p) # "none" THEN [err |-> "FileExistsError", fs |-> f]
    ELSE IF ~isdir(f, dirname(p)) THEN [err |-> "FileNotFoundError", fs |-> f]
    ELSE IF ~CanWrite(w, dirname(p)) THEN [err |-> "PermissionError", fs |-> f]
    ELSE [err |-> "", fs |-> [f EXCEPT ![p] = Dir]]

\* Faulty variant: whatever is in the way of the directory is replaced by it.
create_directory_forced(f, w, directory) ==
    IF isdir(f, directory) THEN [err |-> "", fs |-> f]
    ELSE makedirs([f EXCEPT ![directory] = None], w, directory)

create_directory_if_not_exists(f, w, directory) ==
    IF ~exists(f, directory) THEN makedirs(f, w, directory)
    ELSE [err |-> "", fs |-> f]

\* os.rename(src, dst).  The script only ever renames a non-directory into a
\* directory; a directory cannot be renamed to a path below itself (EINVAL).
rename(f, w, src, dst) ==
    IF Kind(f, src) = "none" THEN [err |-> "FileNotFoundError", fs |-> f]
    ELSE IF Len(dst) > Len(src) /\ SubSeq(dst, 1, Len(src)) = src
         THEN [err |-> (IF isdir(f, src) THEN "OSError" ELSE "NotADirectoryError"), fs |-> f]
    ELSE IF Kind(f, dirname(dst)) = "none" THEN [err |-> "FileNotFoundError", fs |-> f]
    ELSE IF ~isdir(f, dirname(dst)) THEN [err |-> "NotADirectoryError", fs |-> f]
    ELSE IF ~CanWrite(w, dirname(src)) \/ ~CanWrite(w, dirname(dst))
         THEN [err |-> "PermissionError", fs |-> f]
    ELSE IF isdir(f, dst) THEN [err |-> "IsADirectoryError", fs |-> f]
    ELSE [err |-> "", fs |-> [f EXCEPT ![dst] = f[src], ![src] = None]]

\* shutil.copy2(src, dst): contents and times of src written to dst.
copy2(f, w, src, dst) ==
    IF Kind(f, src) = "none" THEN [err |-> "FileNotFoundError", fs |-> f]
    ELSE IF Kind(f, dirname(dst)) = "none" THEN [err |-> "FileNotFoundError", fs |-> f]
    ELSE IF ~isdir(f, dirname(dst)) THEN [err |-> "NotADirectoryError", fs |-> f]
    ELSE IF isdir(f, dst) THEN [err |-> "IsADirectoryError", fs |-> f]
    ELSE IF Kind(f, dst) = "none" /\ ~CanWrite(w, dirname(dst))
         THEN [err |-> "PermissionError", fs |-> f]
    ELSE [err |-> "", fs |-> [f EXCEPT ![dst] = f[src]]]

unlink(f, w, p) ==
    IF Kind(f, p) = "none" THEN [err |-> "FileNotFoundError", fs |-> f]
    ELSE IF ~CanWrite(w, dirname(p)) THEN [err |-> "PermissionError", fs |-> f]
    ELSE [err |-> "", fs |-> [f EXCEPT ![p] = None]]

\* Faulty variant: the file is copied and the source is left where it is.
shutil_copy(f, w, src, dst) ==
    copy2(f, w, src, IF isdir(f, dst) THEN join(dst, basename(src)) ELSE dst)

\* Faulty variant: a source that has gone is not an error.
shutil_move_lenient(f, w, src, dst) ==
    LET real_dst == IF isdir(f, dst) THEN join(dst, basename(src)) ELSE dst
        renamed  == rename(f, w, src, real_dst)
        copied   == copy2(f, w, src, real_dst)
    IN  IF Kind(f, src) = "none" THEN [err |-> "", fs |-> f]
        ELSE IF isdir(f, dst) /\ exists(f, real_dst) THEN [err |-> "Error", fs |-> f]
        ELSE IF renamed.err = "" THEN renamed
        ELSE IF copied.err # "" THEN copied
        ELSE unlink(copied.fs, w, src)

\* shutil.move(src, dst): into dst when dst is a directory; a rename, and when the
\* rename fails a copy followed by the removal of the source.  A source that is a
\* directory (the is-file check lets none through) ends in shutil.Error when its
\* rename fails: the copy of a tree is not modelled.
shutil_move(f, w, src, dst) ==
    LET real_dst == IF isdir(f, dst) THEN join(dst, basename(src)) ELSE dst
        renamed  == rename(f, w, src, real_dst)
        copied   == copy2(f, w, src, real_dst)
    IN  IF isdir(f, dst) /\ exists(f, real_dst) THEN [err |-> "Error", fs |-> f]
        ELSE IF renamed.err = "" THEN renamed
        ELSE IF isdir(f, src) THEN [err |-> "Error", fs |-> f]
        ELSE IF copied.err # "" THEN copied
        ELSE unlink(copied.fs, w, src)

\* Faulty variant: the two fields of the line change places.
MovedLine_swapped(filename, year_month) ==
    "Moved " \o year_month \o " to " \o filename \o "/"

\* print(f'Moved {filename} to {year_month}/')
MovedLine(filename, year_month) == "Moved " \o filename \o " to " \o year_month \o "/"

\* --------------------------------------------------------------- state
VARIABLES
    fs,          \* the file system below the working directory
    writable,    \* whether the working directory is writable
    pc,          \* where the script is: start, loop, getmtime, ensure, move, print, done, failed
    todo,        \* entries of the listing the loop has not reached yet
    filename,    \* the loop variable
    mod_time,    \* line 16
    year_month,  \* line 17
    out,         \* standard output, a sequence of lines
    err,         \* the uncaught exception of a failed run
    run,         \* the number of the invocation
    fs0,         \* history: the file system when this invocation started
    listing,     \* history: the result of os.listdir('.')
    visited,     \* history: the entries in enumeration order
    moved,       \* history: <<filename, year_month>> of every move that returned
    made,        \* history: the directories os.makedirs created
    removed,     \* history: removals by the concurrent actor, with the pc they hit
    resFs,       \* replay: the file system a first successful run ended in
    resOut,      \* replay: the lines it printed
    resVisited,  \* replay: the order in which it met the entries
    replayed,    \* replay: whether this is the replayed run
    prev         \* history: how the previous invocation ended ("" when there was none)

vars == <<fs, writable, pc, todo, filename, mod_time, year_month, out, err, run, fs0,
          listing, visited, moved, made, removed, resFs, resOut, resVisited, replayed, prev>>

hist == <<resFs, resOut, resVisited, replayed, prev>>

\* -------------------------------------------------------- initial states
\* The subsets of S with at most k elements.
RECURSIVE UpTo(_, _)
UpTo(S, k) ==
    IF k = 0 THEN {{}}
    ELSE LET smaller == UpTo(S, k - 1)
         IN  smaller \cup {s \cup {x} : s \in smaller, x \in S}

\* What a top-level name may be before the first run: a regular file of any of the
\* modification times, a directory, or (a month label only) a dangling link.
TopNodes(n) ==
    {Dir} \cup {File(t, <<n>>) : t \in Times}
    \cup (IF n \in Labels THEN {Dangling} ELSE {})

\* At most MaxTop names are present.
TopChoices ==
    UNION {{[n \in TopNames |-> IF n \in S THEN g[n] ELSE None] :
               g \in {h \in [S -> UNION {TopNodes(n) : n \in S}] :
                         \A n \in S : h[n] \in TopNodes(n)}} :
           S \in UpTo(TopNames, MaxTop)}

\* What may lie at d/n before the run: a file, an empty directory, or a directory
\* that holds an entry n of its own.
PreSlots == {<<d, n, shape>> : d \in Labels, n \in TopNames, shape \in {"file", "dir", "full"}}

PreChoices(t) ==
    {s \in UpTo({x \in PreSlots : t[x[1]].kind = "dir"}, MaxPre) :
        \A x, y \in s : (x[1] = y[1] /\ x[2] = y[2]) => x = y}

MkFs(t, s) ==
    [p \in Paths |->
        IF Len(p) = 1 THEN t[p[1]]
        ELSE IF Len(p) = 2 THEN
            IF <<p[1], p[2], "file">> \in s THEN File(1686830400, p)
            ELSE IF <<p[1], p[2], "dir">> \in s \/ <<p[1], p[2], "full">> \in s THEN Dir
            ELSE None
        ELSE IF <<p[1], p[2], "full">> \in s THEN File(1686830400, p)
        ELSE None]

InitialFs == UNION {{MkFs(t, s) : s \in PreChoices(t)} : t \in TopChoices}

Init ==
    /\ fs \in InitialFs
    /\ writable \in BOOLEAN
    /\ pc = "start"
    /\ todo = {}
    /\ filename = ""
    /\ mod_time = 0
    /\ year_month = ""
    /\ out = <<>>
    /\ err = ""
    /\ run = 1
    /\ fs0 = fs
    /\ listing = {}
    /\ visited = <<>>
    /\ moved = <<>>
    /\ made = <<>>
    /\ removed = {}
    /\ resFs = fs
    /\ resOut = {}
    /\ resVisited = <<>>
    /\ replayed = FALSE
    /\ prev = ""

\* -------------------------------------------------------------- actions
\* Line 13, os.listdir('.'): the one listing the loop works on.
ListDir ==
    /\ pc = "start"
    /\ listing' = listdir(fs)
    /\ todo' = listdir(fs)
    /\ pc' = "loop"
    /\ UNCHANGED <<fs, writable, filename, mod_time, year_month, out, err, run, fs0,
                   visited, moved, made, removed, hist>>

\* Lines 13-14: the next entry, in whatever order the listing has, and the filter.
Iterate ==
    /\ pc = "loop"
    /\ \E n \in todo :
        /\ todo' = todo \ {n}
        /\ filename' = n
        /\ visited' = Append(visited, n)
        /\ pc' = IF isfile(fs, <<n>>) THEN "getmtime" ELSE "loop"
    /\ UNCHANGED <<fs, writable, mod_time, year_month, out, err, run, fs0, listing,
                   moved, made, removed, hist>>

\* Faulty variant: the modification time is read once and kept for the files that follow.
GetMTime_Cached ==
    /\ pc = "getmtime"
    /\ IF Kind(fs, <<filename>>) = "none"
       THEN /\ pc' = "failed"
            /\ err' = "FileNotFoundError"
            /\ UNCHANGED <<mod_time, year_month>>
       ELSE /\ mod_time' = IF mod_time # 0 THEN mod_time ELSE getmtime(fs, <<filename>>)
            /\ year_month' = strftime_Ym(mod_time')
            /\ pc' = "ensure"
            /\ err' = err
    /\ UNCHANGED <<fs, writable, todo, filename, out, run, fs0, listing, visited,
                   moved, made, removed, hist>>

\* Lines 16-17: os.path.getmtime and the label.
GetMTime ==
    /\ pc = "getmtime"
    /\ IF Kind(fs, <<filename>>) = "none"
       THEN /\ pc' = "failed"
            /\ err' = "FileNotFoundError"
            /\ UNCHANGED <<mod_time, year_month>>
       ELSE /\ mod_time' = getmtime(fs, <<filename>>)
            /\ year_month' = strftime_Ym(getmtime(fs, <<filename>>))
            /\ pc' = "ensure"
            /\ err' = err
    /\ UNCHANGED <<fs, writable, todo, filename, out, run, fs0, listing, visited,
                   moved, made, removed, hist>>

\* Line 20: create_directory_if_not_exists(year_month).
Ensure ==
    /\ pc = "ensure"
    /\ LET r == create_directory_if_not_exists(fs, writable, <<year_month>>)
       IN  /\ fs' = r.fs
           /\ err' = r.err
           /\ pc' = IF r.err = "" THEN "move" ELSE "failed"
           /\ made' = IF r.fs # fs THEN Append(made, year_month) ELSE made
    /\ UNCHANGED <<writable, todo, filename, mod_time, year_month, out, run, fs0,
                   listing, visited, moved, removed, hist>>

\* Line 23: shutil.move(filename, os.path.join(year_month, filename)).
Move ==
    /\ pc = "move"
    /\ LET r == shutil_move(fs, writable, <<filename>>, join(<<year_month>>, filename))
       IN  /\ fs' = r.fs
           /\ err' = r.err
           /\ pc' = IF r.err = "" THEN "print" ELSE "failed"
           /\ moved' = IF r.err = "" THEN Append(moved, <<filename, year_month>>) ELSE moved
    /\ UNCHANGED <<writable, todo, filename, mod_time, year_month, out, run, fs0,
                   listing, visited, made, removed, hist>>

\* Line 24: the confirmation line.
PrintMoved ==
    /\ pc = "print"
    /\ out' = Append(out, MovedLine(filename, year_month))
    /\ pc' = "loop"
    /\ UNCHANGED <<fs, writable, todo, filename, mod_time, year_month, err, run, fs0,
                   listing, visited, moved, made, removed, hist>>

\* The loop runs out of entries and the script ends normally.
Finish ==
    /\ pc = "loop"
    /\ todo = {}
    /\ pc' = "done"
    /\ UNCHANGED <<fs, writable, todo, filename, mod_time, year_month, out, err, run,
                   fs0, listing, visited, moved, made, removed, hist>>

\* Line 27 again: the script is invoked once more on what the last run left.
Rerun ==
    /\ pc \in {"done", "failed"}
    /\ run < MaxRuns
    /\ run' = run + 1
    /\ fs0' = fs
    /\ pc' = "start"
    /\ todo' = {}
    /\ filename' = ""
    /\ mod_time' = 0
    /\ year_month' = ""
    /\ out' = <<>>
    /\ err' = ""
    /\ listing' = {}
    /\ visited' = <<>>
    /\ moved' = <<>>
    /\ made' = <<>>
    /\ prev' = pc
    /\ UNCHANGED <<fs, writable, removed, resFs, resOut, resVisited, replayed>>

Step == ListDir \/ Iterate \/ GetMTime \/ Ensure \/ Move \/ PrintMoved \/ Finish

Next == Step \/ Rerun

Spec == Init /\ [][Next]_vars

\* ------------------------------------------------- a concurrent actor
\* rm -r of a top-level entry: the entry and what the model holds below it.
remove_entry(f, n) ==
    [p \in DOMAIN f |-> IF p[1] = n THEN None ELSE f[p]]

\* Another process removes an entry of the listing that the loop has not finished
\* with.  removed records where the loop stood with respect to that entry.
Remove ==
    /\ pc \in {"loop", "getmtime", "ensure", "move"}
    /\ Cardinality(removed) < MaxRemovals
    /\ \E n \in listing :
        /\ Kind(fs, <<n>>) # "none"
        /\ \/ n \in todo
           \/ n = filename /\ pc \in {"getmtime", "ensure", "move"}
        /\ fs' = remove_entry(fs, n)
        /\ removed' = removed \cup {<<n, IF n \in todo THEN "listed" ELSE pc>>}
    /\ UNCHANGED <<writable, pc, todo, filename, mod_time, year_month, out, err, run,
                   fs0, listing, visited, moved, made, hist>>

NextConc == Step \/ Remove

SpecConc == Init /\ [][NextConc]_vars

\* ------------------------------------ the same directory, another order
\* The working directory is put back as it was and the script runs again; the
\* listing may come in another order.
Replay ==
    /\ pc = "done"
    /\ ~replayed
    /\ replayed' = TRUE
    /\ resFs' = fs
    /\ resOut' = {out[i] : i \in 1..Len(out)}
    /\ resVisited' = visited
    /\ fs' = fs0
    /\ pc' = "start"
    /\ todo' = {}
    /\ filename' = ""
    /\ mod_time' = 0
    /\ year_month' = ""
    /\ out' = <<>>
    /\ err' = ""
    /\ listing' = {}
    /\ visited' = <<>>
    /\ moved' = <<>>
    /\ made' = <<>>
    /\ UNCHANGED <<writable, run, fs0, removed, prev>>

NextReplay == Step \/ Replay

SpecReplay == Init /\ [][NextReplay]_vars

\* ===================================================================
\* Properties
\* ===================================================================
Regular(f) == {n \in TopNames : Kind(f, <<n>>) = "file"}
LabelOf(f, n) == strftime_Ym(f[<<n>>].mtime)
Where(f, node) == {p \in Paths : f[p] = node}
Range(q) == {q[i] : i \in 1..Len(q)}
Terminated == pc \in {"done", "failed"}

\* C1: after a run that completes without error, every regular file that was at the
\* top level when the run started is at <label of its mtime>/<its name>, and nowhere
\* else: not at the top level, not in another directory.
C1_EveryFileUnderItsLabel ==
    pc = "done" =>
        \A n \in Regular(fs0) : Where(fs, fs0[<<n>>]) = {<<LabelOf(fs0, n), n>>}

\* C2: no directory is ever moved or renamed.  No step makes a directory disappear
\* from its path, a directory appears only where os.makedirs puts it, the source of
\* every move is a regular file, and the loop never works on a name that this run
\* created as a directory.
C2_DirectoriesStay ==
    [][/\ \A p \in Paths : Kind(fs, p) = "dir" => Kind(fs', p) = "dir"
       /\ \A p \in Paths : (Kind(fs, p) # "dir" /\ Kind(fs', p) = "dir")
                               => (pc = "ensure" /\ p = <<year_month>>)
       /\ (pc = "move" /\ fs' # fs) => Kind(fs, <<filename>>) = "file"
       /\ pc' \in {"getmtime", "ensure", "move", "print"} => filename' \notin Range(made')
      ]_vars

C2_Witness ==
    /\ pc = "done"
    /\ moved # <<>>
    /\ \E n \in listing : Kind(fs0, <<n>>) = "dir" /\ Kind(fs, <<n>>) = "dir"
    /\ \E d \in Range(made) : d \in listing

\* C3: a run that follows a run that completed without error moves nothing, creates
\* nothing, prints nothing, does not fail, and leaves the file system as it found it.
C3_SecondRunIsNoOp ==
    [][(prev = "done" /\ run' = run) =>
          /\ fs' = fs
          /\ fs' = fs0
          /\ out' = <<>>
          /\ moved' = <<>>
          /\ made' = <<>>
          /\ pc' # "failed"
      ]_vars

C3_Witness ==
    /\ prev = "done"
    /\ pc = "done"
    /\ Cardinality(listing) >= 2
    /\ \E p \in Paths : Len(p) >= 2 /\ Kind(fs, p) = "file" /\ Len(fs[p].id) = 1

\* C4: when a run fails, the regular files met before the failing one have been
\* moved into their label directories and have their lines, and the failing file
\* and the entries after it are as they were: at the top level, with no copy of
\* them anywhere, no directory made for the later ones, and no line.
C4_FailureLeavesTheRestUntouched ==
    (pc = "failed" /\ visited # <<>>) =>
        LET k == Len(visited)
            before == {visited[i] : i \in 1..(k - 1)}
            rest == {visited[k]} \cup todo
        IN  /\ \A n \in before \cap Regular(fs0) :
                /\ \E p \in Where(fs, fs0[<<n>>]) : Len(p) >= 2 /\ p[1] = LabelOf(fs0, n)
                /\ <<n>> \notin Where(fs, fs0[<<n>>])
                /\ \E i \in 1..Len(out) :
                      out[i] = "Moved " \o n \o " to " \o LabelOf(fs0, n) \o "/"
            /\ \A n \in rest :
                /\ fs[<<n>>] = fs0[<<n>>]
                /\ n \in Regular(fs0) => Where(fs, fs0[<<n>>]) = {<<n>>}
                /\ \A i \in 1..Len(moved) : moved[i][1] # n
            /\ Range(made) \subseteq
                  {LabelOf(fs0, n) : n \in (before \cup {visited[k]}) \cap Regular(fs0)}
            /\ Len(out) = Cardinality(before \cap Regular(fs0))

\* C5: the output is, line for line and in order, "Moved <name> to <label>/" for the
\* moves that have returned; only the move whose print is the next statement has no
\* line yet.  Every line names a regular file of the listing, once, with the label of
\* its modification time, and that file is now below that label directory and no
\* longer at the top level.  An entry that was skipped, or whose move failed, has
\* no line.
C5_OutputFollowsMoves ==
    /\ Len(out) = (IF pc = "print" THEN Len(moved) - 1 ELSE Len(moved))
    /\ \A i \in 1..Len(out) :
          out[i] = "Moved " \o moved[i][1] \o " to " \o moved[i][2] \o "/"
    /\ \A i, j \in 1..Len(moved) : moved[i][1] = moved[j][1] => i = j
    /\ \A i \in 1..Len(moved) :
          LET n == moved[i][1] IN
          /\ n \in listing /\ n \in Range(visited)
          /\ Kind(fs0, <<n>>) = "file"
          /\ moved[i][2] = LabelOf(fs0, n)
          /\ \E p \in Where(fs, fs0[<<n>>]) : Len(p) >= 2 /\ p[1] = moved[i][2]
          /\ <<n>> \notin Where(fs, fs0[<<n>>])
    /\ pc = "failed" => \A i \in 1..Len(moved) : moved[i][1] # filename

C5_Witness ==
    /\ pc = "failed"
    /\ Len(out) >= 1
    /\ \E n \in Range(visited) : Kind(fs0, <<n>>) # "file"

\* C6: a run that completes without error has created one directory, once, for
\* every label of a regular file of the listing that was not a directory before,
\* and no other directory anywhere; without regular files it creates none and
\* prints nothing; every file of a label whose directory it created lies in that
\* one directory.
C6_OneDirectoryPerNewLabel ==
    pc = "done" =>
        LET need == {LabelOf(fs0, n) : n \in Regular(fs0)}
                        \ {d \in Labels : Kind(fs0, <<d>>) = "dir"}
        IN  /\ Range(made) = need
            /\ Len(made) = Cardinality(need)
            /\ {p \in Paths : Kind(fs, p) = "dir" /\ Kind(fs0, p) # "dir"}
                  = {<<d>> : d \in need}
            /\ Regular(fs0) = {} => (made = <<>> /\ out = <<>>)
            /\ \A n \in Regular(fs0) :
                  LabelOf(fs0, n) \in need => fs[<<LabelOf(fs0, n), n>>] = fs0[<<n>>]

C6_Witness ==
    /\ pc = "done"
    /\ Len(made) = 1
    /\ \E m, n \in Regular(fs0) :
          m # n /\ LabelOf(fs0, m) = LabelOf(fs0, n) /\ fs0[<<m>>].mtime # fs0[<<n>>].mtime

\* C7: when create_directory_if_not_exists returns normally a directory of the
\* target name exists, and when something that is not a directory has the target
\* name it does not return normally.
C7_EnsureGivesADirectory ==
    [][pc = "ensure" =>
          /\ pc' = "move" => Kind(fs', <<year_month>>) = "dir"
          /\ Kind(fs, <<year_month>>) \in {"file", "dangling"} => pc' = "failed"
      ]_vars

\* C8 as stated: once the other process has removed an entry of the listing that
\* the loop had not finished with, the run does not end normally.
C8_RemovalIsAlwaysFatal ==
    pc = "done" => removed = {}

\* C8 amended: a file removed after its is-file check and before its move stops the
\* run at that file: the loop never gets past it, prints no line for it and does
\* not end normally.  An entry removed before its is-file check is passed over: it
\* is never moved, gets no line, and the run does not fail at it.
C8_RemovalAfterCheckIsFatal ==
    \A r \in removed :
        IF r[2] = "listed"
        THEN /\ \A i \in 1..Len(moved) : moved[i][1] # r[1]
             /\ (filename = r[1] /\ r[1] \notin todo) => pc \in {"loop", "done"}
        ELSE /\ filename = r[1]
             /\ pc \in {"getmtime", "ensure", "move", "failed"}
             /\ \A i \in 1..Len(moved) : moved[i][1] # r[1]

C8_Witness ==
    /\ pc = "failed"
    /\ err = "FileNotFoundError"
    /\ <<filename, "move">> \in removed
    /\ Len(out) >= 1

\* C9: in a working directory that is not writable and holds a regular file, the
\* run fails, every entry of the listing is still at the top level as it was,
\* nothing has appeared or changed below the top level, and nothing was printed.
C9_ReadOnlyLeavesEverything ==
    (~writable /\ Regular(fs0) # {} /\ Terminated) =>
        /\ pc = "failed"
        /\ \A n \in listing : fs[<<n>>] = fs0[<<n>>]
        /\ \A p \in Paths : Len(p) >= 2 => fs[p] = fs0[p]
        /\ out = <<>>

\* C10: two runs on the same working directory that both complete without error
\* end in the same file system and print the same set of lines, whatever order the
\* listing came in.
C10_OrderDoesNotMatter ==
    (replayed /\ pc = "done") =>
        /\ fs = resFs
        /\ Range(out) = resOut

C10_Witness ==
    /\ replayed
    /\ pc = "done"
    /\ Len(moved) >= 2
    /\ visited # resVisited
    /\ \E n \in Regular(fs0) : n \in Labels

====
